---- MODULE Spec2Model ----
(***************************************************************************)
(* CPong (src/main.c): the swept collision resolvers getPaddleCollision    *)
(* and getWallCollision, the per-frame response of the round loop, and the *)
(* game/round state machine of main.                                       *)
(*                                                                         *)
(* Numbers.  The program computes in C float.  The model computes in exact *)
(* rational arithmetic: a number is a record [n |-> numerator,             *)
(* d |-> denominator] in lowest terms with d > 0, and the one non-number   *)
(* the program can produce, the 0/0 of a division by a zero slope, is the  *)
(* value NaN = [n |-> 0, d |-> 0], on which every comparison is false, as  *)
(* in IEEE arithmetic.  Rounding of float operations is not modelled.      *)
(***************************************************************************)
EXTENDS Integers, Sequences, FiniteSets, TLC

VARIABLES
    gameState,      \* int gameState: 0 startup, 1 round loop, 2 new round
    gameStarting,   \* int gameStarting
    elapsed,        \* time(NULL) - sinceStart, in whole seconds
    sinceFrac,      \* part of a second that time(NULL) dropped when
                    \* sinceStart was assigned, in clock ticks
    waited,         \* time since sinceStart was assigned, in clock ticks
    printed,        \* the last line written to stdout
    ball,           \* Ball ball: [position, speed]
    p1, p2,         \* Paddle p1, p2: [position, score]
    ballRect,       \* position last given to the ballRect shape
    paddleCol,      \* Collision paddleCol of the last resolver call
    wallCol,        \* Collision wallCol of the last resolver call
    ballNextA,      \* Point ballNextA (out-parameter of getPaddleCollision)
    ballNextB,      \* Point ballNextB (out-parameter of getWallCollision)
    slopes,         \* the local "slope" of each resolver's last call
    ballIn,         \* the ball as the last resolver calls were given it
    frames,         \* round-loop iterations executed since the round began
    hits,           \* paddle collisions reported since the round began
    pc              \* control position: "main" in the game loop; "call",
                    \* "returned", "snappedPaddle", "snappedWall",
                    \* "responded" when the resolvers and the response
                    \* are applied to drawn inputs

vars == <<gameState, gameStarting, elapsed, sinceFrac, waited, printed, ball,
          p1, p2, ballRect, paddleCol, wallCol, ballNextA, ballNextB, slopes,
          ballIn, frames, hits, pc>>

---------------------------------------------------------------------------
(* Program constants (#define lines of src/main.c).                        *)

WINDOW_WIDTH == 800
WINDOW_HEIGHT == 600
P1_START_X == 75
P1_START_Y == 250
P2_START_X == 700
P2_START_Y == 250
BALL_START_X == 390
BALL_START_Y == 290
BALL_SIZE == 20
PADDLE_WIDTH == 25
PADDLE_HEIGHT == 100
BALL_SPEED == 5
PADDLE_SPEED == 8

\* typedef enum {TOP, RIGHT, BOTTOM, LEFT} Side;
TOP == "TOP"
RIGHT == "RIGHT"
BOTTOM == "BOTTOM"
LEFT == "LEFT"

---------------------------------------------------------------------------
(* Exact rational arithmetic standing for the program's float arithmetic.  *)

Abs(i) == IF i < 0 THEN -i ELSE i

RECURSIVE GCD(_, _)
GCD(a, b) == IF b = 0 THEN a ELSE GCD(b, a % b)

NaN == [n |-> 0, d |-> 0]

IsNaN(a) == a.d = 0

\* The rational n/d in lowest terms (d # 0).
Q(n, d) ==
    LET g == GCD(Abs(n), Abs(d))
        s == IF d < 0 THEN -1 ELSE 1
    IN  [n |-> s * (n \div g), d |-> s * (d \div g)]

\* An integer literal.
R(i) == [n |-> i, d |-> 1]

RNeg(a) == [n |-> -a.n, d |-> a.d]

RAdd(a, b) ==
    IF IsNaN(a) \/ IsNaN(b) THEN NaN
    ELSE LET g == GCD(a.d, b.d)
         IN  Q(a.n * (b.d \div g) + b.n * (a.d \div g), a.d * (b.d \div g))

RSub(a, b) == RAdd(a, RNeg(b))

RMul(a, b) ==
    IF IsNaN(a) \/ IsNaN(b) THEN NaN
    ELSE IF a.n = 0 \/ b.n = 0 THEN R(0)
    ELSE LET g1 == GCD(Abs(a.n), b.d)
             g2 == GCD(Abs(b.n), a.d)
         IN  [n |-> (a.n \div g1) * (b.n \div g2),
              d |-> (a.d \div g2) * (b.d \div g1)]

\* a / b.  The only division by zero the program performs is 0/0 (a zero
\* slope dividing a zero difference in getWallCollision), which is a NaN.
RDiv(a, b) ==
    IF IsNaN(a) \/ IsNaN(b) \/ b.n = 0 THEN NaN
    ELSE RMul(a, IF b.n < 0 THEN [n |-> -b.d, d |-> -b.n]
                            ELSE [n |-> b.d, d |-> b.n])

\* floor(a) for a number a.
Floor(a) == a.n \div a.d

\* a < b, a <= b: false when either is a NaN.  The integer parts decide
\* when they differ; otherwise the fractions are compared over their
\* common denominator.
RLt(a, b) ==
    IF IsNaN(a) \/ IsNaN(b) THEN FALSE
    ELSE IF Floor(a) # Floor(b) THEN Floor(a) < Floor(b)
    ELSE LET g == GCD(a.d, b.d)
         IN  (a.n % a.d) * (b.d \div g) < (b.n % b.d) * (a.d \div g)

REq(a, b) == ~IsNaN(a) /\ ~IsNaN(b) /\ a = b

RLe(a, b) == RLt(a, b) \/ REq(a, b)

RGt(a, b) == RLt(b, a)

RGe(a, b) == RLe(b, a)

\* #define MIN(a, b) (((a)<(b))?(a):(b))
MIN(a, b) == IF RLt(a, b) THEN a ELSE b

\* #define MAX(a, b) (((a)>(b))?(a):(b))
MAX(a, b) == IF RGt(a, b) THEN a ELSE b

\* C conversion float -> int (toward zero), as in abs(ball.speed.y).
Trunc(a) == IF a.n >= 0 THEN a.n \div a.d ELSE -((-a.n) \div a.d)

Pt(x, y) == [x |-> x, y |-> y]

ZeroPoint == Pt(R(0), R(0))

---------------------------------------------------------------------------
(* Geometry queries.                                                       *)

\* Fault variant of Point_getDistance: b.x - a.x is discarded as well.
Point_getDistanceNoX(a, b) == R(2)

\* Point_getDistance returns sqrt(pow(b.x - a.x, 2) + (b.y - a.y, 2)): the
\* second operand of + is a comma expression whose value is 2, so the
\* result is sqrt(dx^2 + 2) and b.y - a.y is discarded.  The program only
\* compares two such values with <; sqrt(dx^2 + 2) is strictly increasing
\* in |dx|, so the model keeps |dx|, which orders the values identically.
Point_getDistance(a, b) ==
    LET dx == RSub(b.x, a.x)
    IN  IF IsNaN(dx) THEN NaN ELSE [n |-> Abs(dx.n), d |-> dx.d]

Ball_getVertex(b, vertex) ==
    CASE vertex = 0 -> b.position
      [] vertex = 1 -> Pt(RAdd(b.position.x, R(BALL_SIZE)), b.position.y)
      [] vertex = 2 -> Pt(RAdd(b.position.x, R(BALL_SIZE)),
                          RAdd(b.position.y, R(BALL_SIZE)))
      [] vertex = 3 -> Pt(b.position.x, RAdd(b.position.y, R(BALL_SIZE)))
      [] OTHER -> ZeroPoint

Ball_getBound(b, side) ==
    CASE side = TOP -> b.position.y
      [] side = RIGHT -> RAdd(b.position.x, R(BALL_SIZE))
      [] side = BOTTOM -> RAdd(b.position.y, R(BALL_SIZE))
      [] side = LEFT -> b.position.x
      [] OTHER -> R(0)

Paddle_getBound(paddle, side) ==
    CASE side = TOP -> paddle.position.y
      [] side = RIGHT -> RAdd(paddle.position.x, R(PADDLE_WIDTH))
      [] side = BOTTOM -> RAdd(paddle.position.y, R(PADDLE_HEIGHT))
      [] side = LEFT -> paddle.position.x
      [] OTHER -> R(0)

\* Collision returnVal = (Collision){0, {0.0f, 0.0f}, TOP};
NoCollision == [collides |-> 0, position |-> ZeroPoint, side |-> TOP]

\* The value of the local "slope" before the resolver assigns it.
NoSlope == "unset"

\* float slope = slopeN / slopeD;
Slope(b) == RDiv(b.speed.y, b.speed.x)

\* Fault variant of SnapToContact: the contact is taken for the top-left
\* position whichever vertex collided.
SnapToContactTopLeft(contact, vertex) == contact

\* The snap-to-contact back-computation both resolvers end with: the
\* top-left position for which vertex "vertex" sits at "contact".
SnapToContact(contact, vertex) ==
    LET originReference == [position |-> contact, speed |-> ZeroPoint]
        backToOrigin == Ball_getVertex(originReference, vertex)
    IN  Pt(RSub(contact.x, RSub(backToOrigin.x, contact.x)),
           RSub(contact.y, RSub(backToOrigin.y, contact.y)))

---------------------------------------------------------------------------
(* getPaddleCollision.                                                     *)

\* Fault variant of HorizontalPass: a contact outside the paddle's extent
\* ends the loop instead of passing to the next vertex.
HorizontalPassNoContinue(b, paddle, vertex, side, slope, rest) ==
    LET vertexPos == Ball_getVertex(b, vertex)
        nextPos == Pt(RAdd(vertexPos.x, b.speed.x), RAdd(vertexPos.y, b.speed.y))
        paddleX == Paddle_getBound(paddle, side)
        yIncp == RSub(vertexPos.y, RMul(vertexPos.x, slope))
        ballColY == RAdd(RMul(paddleX, slope), yIncp)
    IN  IF /\ RGe(paddleX, MIN(vertexPos.x, nextPos.x))
           /\ RLe(paddleX, MAX(vertexPos.x, nextPos.x))
           /\ RGe(ballColY, Paddle_getBound(paddle, TOP))
           /\ RLe(ballColY, Paddle_getBound(paddle, BOTTOM))
        THEN [col |-> [collides |-> 1, position |-> Pt(paddleX, ballColY),
                       side |-> side],
              vertex |-> vertex]
        ELSE [col |-> NoCollision, vertex |-> vertex]

\* One pass of the "Horizontal tests" loop for vertex hv[i]; "rest" is the
\* result of the passes that follow a continue.
HorizontalPass(b, paddle, vertex, side, slope, rest) ==
    LET vertexPos == Ball_getVertex(b, vertex)
        nextPos == Pt(RAdd(vertexPos.x, b.speed.x), RAdd(vertexPos.y, b.speed.y))
        ballMinX == MIN(vertexPos.x, nextPos.x)
        ballMaxX == MAX(vertexPos.x, nextPos.x)
        paddleX == Paddle_getBound(paddle, side)
        yIncp == RSub(vertexPos.y, RMul(vertexPos.x, slope))
        paddleMinY == Paddle_getBound(paddle, TOP)
        paddleMaxY == Paddle_getBound(paddle, BOTTOM)
        ballColY == RAdd(RMul(paddleX, slope), yIncp)
    IN  IF ~(RGe(paddleX, ballMinX) /\ RLe(paddleX, ballMaxX))
        THEN [col |-> NoCollision, vertex |-> vertex]               \* break
        ELSE IF ~(RGe(ballColY, paddleMinY) /\ RLe(ballColY, paddleMaxY))
        THEN rest                                                   \* continue
        ELSE [col |-> [collides |-> 1, position |-> Pt(paddleX, ballColY),
                       side |-> side],
              vertex |-> vertex]                                    \* break

\* The "Horizontal tests" loop: horizontalCol and collisionVertices[0].
HorizontalTests(b, paddle, hv, side, slope) ==
    HorizontalPass(b, paddle, hv[1], side, slope,
        HorizontalPass(b, paddle, hv[2], side, slope,
            [col |-> NoCollision, vertex |-> hv[2]]))

\* One pass of the "Vertical tests" loop for vertex vv[i].
VerticalPass(b, paddle, vertex, side, slope, rest) ==
    LET vertexPos == Ball_getVertex(b, vertex)
        nextPos == Pt(RAdd(vertexPos.x, b.speed.x), RAdd(vertexPos.y, b.speed.y))
        ballMinY == MIN(vertexPos.y, nextPos.y)
        ballMaxY == MAX(vertexPos.y, nextPos.y)
        paddleY == Paddle_getBound(paddle, side)
        yIncp == RSub(vertexPos.y, RMul(vertexPos.x, slope))
        paddleMinX == Paddle_getBound(paddle, LEFT)
        paddleMaxX == Paddle_getBound(paddle, RIGHT)
        ballColX == RDiv(RSub(paddleY, yIncp), slope)
    IN  IF ~(RGe(paddleY, ballMinY) /\ RLe(paddleY, ballMaxY))
        THEN [col |-> NoCollision, vertex |-> vertex]               \* break
        ELSE IF ~(RGe(ballColX, paddleMinX) /\ RLe(ballColX, paddleMaxX))
        THEN rest                                                   \* continue
        ELSE [col |-> [collides |-> 1, position |-> Pt(ballColX, paddleY),
                       side |-> side],
              vertex |-> vertex]                                    \* break

\* The "Vertical tests" loop: verticalCol and collisionVertices[1].  The
\* loop leaves at once when the slope is zero.
VerticalTests(b, paddle, vv, side, slope) ==
    IF REq(slope, R(0))
    THEN [col |-> NoCollision, vertex |-> -1]
    ELSE VerticalPass(b, paddle, vv[1], side, slope,
             VerticalPass(b, paddle, vv[2], side, slope,
                 [col |-> NoCollision, vertex |-> vv[2]]))

\* "Assigns the closest collision occurence to returnVal": the chosen
\* collision and its collisionVertex.
ClosestPaddleCollision(b, h, v) ==
    IF h.col.collides = 1 /\ v.col.collides = 1
    THEN IF RLt(Point_getDistance(Ball_getVertex(b, h.vertex), h.col.position),
                Point_getDistance(Ball_getVertex(b, v.vertex), v.col.position))
         THEN h ELSE v
    ELSE IF h.col.collides = 1 THEN h
    ELSE IF v.col.collides = 1 THEN v
    ELSE [col |-> NoCollision, vertex |-> 0]

\* The broad-phase rejects of getPaddleCollision ("Determine the edges of
\* the paddle that collision will be tested against").
PaddleBroadReject(b, paddle) ==
    \/ /\ RGe(b.speed.x, R(0))
       /\ RGt(Ball_getBound(b, LEFT), Paddle_getBound(paddle, RIGHT))
    \/ /\ ~RGe(b.speed.x, R(0))
       /\ RLt(Ball_getBound(b, RIGHT), Paddle_getBound(paddle, LEFT))
    \/ /\ RGe(b.speed.y, R(0))
       /\ RGt(Ball_getBound(b, TOP), Paddle_getBound(paddle, BOTTOM))
    \/ /\ ~RGe(b.speed.y, R(0))
       /\ RLt(Ball_getBound(b, BOTTOM), Paddle_getBound(paddle, TOP))

\* Fault variant of SlopeIsVertical: the resolvers go on to divide.
SlopeNeverVertical(b) == FALSE

\* "Return failure if the slope is vertical": slopeD == 0.0f.
SlopeIsVertical(b) == REq(b.speed.x, R(0))

\* The end of getPaddleCollision, from "if(returnVal.collides)" on: c
\* holds returnVal and collisionVertex.
PaddleReturn(c, newPosition, slope) ==
    [ret |-> c.col,
     newPosition |-> IF c.col.collides = 1
                     THEN SnapToContact(c.col.position, c.vertex)
                     ELSE newPosition,
     slope |-> slope]

\* The horizontal tests with the vertices and the paddle edge that the
\* ball's direction selects.
PaddleHorizontal(b, paddle, slope) ==
    IF RGe(b.speed.x, R(0))
    THEN HorizontalTests(b, paddle, <<1, 2>>, LEFT, slope)
    ELSE HorizontalTests(b, paddle, <<0, 3>>, RIGHT, slope)

\* The vertical tests likewise.
PaddleVertical(b, paddle, slope) ==
    IF RGe(b.speed.y, R(0))
    THEN VerticalTests(b, paddle, <<2, 3>>, TOP, slope)
    ELSE VerticalTests(b, paddle, <<0, 1>>, BOTTOM, slope)

\* getPaddleCollision after "float slope = slopeN / slopeD".
PaddleTests(b, paddle, newPosition, slope) ==
    IF PaddleBroadReject(b, paddle)
    THEN [ret |-> NoCollision, newPosition |-> newPosition, slope |-> slope]
    ELSE PaddleReturn(
             ClosestPaddleCollision(b, PaddleHorizontal(b, paddle, slope),
                                    PaddleVertical(b, paddle, slope)),
             newPosition, slope)

\* Collision getPaddleCollision(const Ball *ball, const Paddle *paddle,
\*                              Point *newPosition)
\* The result holds the returned Collision, the value of *newPosition
\* after the call and the value of the local slope.
getPaddleCollision(b, paddle, newPosition) ==
    IF SlopeIsVertical(b)
    THEN [ret |-> NoCollision, newPosition |-> newPosition, slope |-> NoSlope]
    ELSE PaddleTests(b, paddle, newPosition, Slope(b))

---------------------------------------------------------------------------
(* getWallCollision.                                                       *)

\* Fault variant of TestedVertex: the top-left vertex whatever the travel.
TestedVertexTopLeft(b) == 0

\* testedVertex: the vertex leading in both directions of travel.
TestedVertex(b) ==
    LET right == RGe(b.speed.x, R(0))
        down == RGe(b.speed.y, R(0))
    IN  IF right /\ down THEN 2
        ELSE IF ~right /\ down THEN 3
        ELSE IF right /\ ~down THEN 1
        ELSE 0

\* Fault variant of WallHorizontalCol: the side walls are not tested.
WallHorizontalColNone(b, slope) == NoCollision

\* The side-wall candidate, horizontalCol.
WallHorizontalCol(b, slope) ==
    LET right == RGe(b.speed.x, R(0))
        horizontalSide == IF right THEN RIGHT ELSE LEFT
        horizontalBound == IF right THEN R(WINDOW_WIDTH) ELSE R(0)
        vertexPos == Ball_getVertex(b, TestedVertex(b))
        nextPos == Pt(RAdd(vertexPos.x, b.speed.x), RAdd(vertexPos.y, b.speed.y))
        yIncp == RSub(vertexPos.y, RMul(vertexPos.x, slope))
    IN  IF RLe(MIN(vertexPos.x, nextPos.x), horizontalBound)
           /\ RGe(MAX(vertexPos.x, nextPos.x), horizontalBound)
        THEN [collides |-> 1,
              position |-> Pt(horizontalBound,
                              RAdd(RMul(slope, horizontalBound), yIncp)),
              side |-> horizontalSide]
        ELSE NoCollision

\* The floor/ceiling candidate, verticalCol.
WallVerticalCol(b, slope) ==
    LET down == RGe(b.speed.y, R(0))
        verticalSide == IF down THEN BOTTOM ELSE TOP
        verticalBound == IF down THEN R(WINDOW_HEIGHT) ELSE R(0)
        vertexPos == Ball_getVertex(b, TestedVertex(b))
        nextPos == Pt(RAdd(vertexPos.x, b.speed.x), RAdd(vertexPos.y, b.speed.y))
        yIncp == RSub(vertexPos.y, RMul(vertexPos.x, slope))
    IN  IF RLe(MIN(vertexPos.y, nextPos.y), verticalBound)
           /\ RGe(MAX(vertexPos.y, nextPos.y), verticalBound)
        THEN [collides |-> 1,
              position |-> Pt(RDiv(RSub(verticalBound, yIncp), slope),
                              verticalBound),
              side |-> verticalSide]
        ELSE NoCollision

\* The choice between the two candidates.
ClosestWallCollision(b, horizontalCol, verticalCol) ==
    LET vertexPos == Ball_getVertex(b, TestedVertex(b))
    IN  IF horizontalCol.collides = 1 /\ verticalCol.collides = 1
        THEN IF RLt(Point_getDistance(vertexPos, horizontalCol.position),
                    Point_getDistance(vertexPos, verticalCol.position))
             THEN horizontalCol ELSE verticalCol
        ELSE IF horizontalCol.collides = 1 THEN horizontalCol
        ELSE IF verticalCol.collides = 1 THEN verticalCol
        ELSE NoCollision

\* The end of getWallCollision, from "if(returnVal.collides)" on.
WallReturn(b, returnVal, newPosition, slope) ==
    [ret |-> returnVal,
     newPosition |-> IF returnVal.collides = 1
                     THEN SnapToContact(returnVal.position, TestedVertex(b))
                     ELSE newPosition,
     slope |-> slope]

\* getWallCollision after "float slope = slopeN / slopeD".
WallTests(b, newPosition, slope) ==
    WallReturn(b,
               ClosestWallCollision(b, WallHorizontalCol(b, slope),
                                    WallVerticalCol(b, slope)),
               newPosition, slope)

\* Collision getWallCollision(const Ball *ball, Point *newPosition)
getWallCollision(b, newPosition) ==
    IF SlopeIsVertical(b)
    THEN [ret |-> NoCollision, newPosition |-> newPosition, slope |-> NoSlope]
    ELSE WallTests(b, newPosition, Slope(b))

---------------------------------------------------------------------------
(* Bounds of the model.                                                    *)

\* A round is followed for at most MaxFrames iterations of the round loop.
MaxFrames == 170

\* A round is followed until MaxHits paddle collisions have been reported.
MaxHits == 2

\* Seconds of waiting that are told apart (the longest delay is 3 s).
MaxElapsed == 3

\* Clock ticks in a second: the resolution at which the model follows the
\* time that time(NULL) reports in whole seconds.
TicksPerSecond == 2

\* The values of (float)rand() / (float)RAND_MAX that are drawn.
RandFracs == {Q(14, 25), Q(19, 25)}

\* The values of rand() % 2.
RandBits == {0, 1}

\* The keyboard states sampled by a frame of a rally: no key, player 1
\* holding W while player 2 holds Down, or all four movement keys held.
RallyKeys == {{}, {"W", "Down"}, {"W", "S", "Up", "Down"}}

\* The keyboard states sampled by a frame of a whole match.
MatchKeys == {{}}

---------------------------------------------------------------------------
(* The game: main.                                                         *)

\* A line written to stdout: its format string and the values of its
\* conversions (0 where it has fewer than two).
Line(format, a, b) == [format |-> format, a |-> a, b |-> b]

\* "sinceStart = time(NULL)": time(NULL) is in whole seconds, so the part
\* of a second that has passed since the clock last changed is dropped.
TakeTime ==
    /\ elapsed' = 0
    /\ waited' = 0
    /\ sinceFrac' \in 0 .. TicksPerSecond - 1

\* The clock is not followed once a pending start has been served.
DropTime ==
    /\ elapsed' = 0
    /\ waited' = 0
    /\ sinceFrac' = 0

\* State after "Game variable setup", the object definitions and the
\* prompt.
Init ==
    /\ gameState = 0
    /\ gameStarting = 0
    /\ elapsed = 0
    /\ sinceFrac = 0
    /\ waited = 0
    /\ printed = Line("Press enter to start the game!", 0, 0)
    /\ ball = [position |-> Pt(R(BALL_START_X), R(BALL_START_Y)),
               speed |-> Pt(R(BALL_SPEED), R(BALL_SPEED))]
    /\ p1 = [position |-> Pt(R(P1_START_X), R(P1_START_Y)), score |-> 0]
    /\ p2 = [position |-> Pt(R(P2_START_X), R(P2_START_Y)), score |-> 0]
    /\ ballRect = Pt(R(BALL_START_X), R(BALL_START_Y))
    /\ paddleCol = NoCollision
    /\ wallCol = NoCollision
    /\ ballNextA = ZeroPoint
    /\ ballNextB = ZeroPoint
    /\ slopes = [paddle |-> NoSlope, wall |-> NoSlope]
    /\ ballIn = ball
    /\ frames = 0
    /\ hits = 0
    /\ pc = "main"

\* "Set object positions and generate random ball speed and direction":
\* the ball after the draws bx = rand() % 2, r = rand() / RAND_MAX and
\* by = rand() % 2.
ServedBall(bx, r, by) ==
    LET x0 == R(BALL_SPEED)
        y0 == R(3)
    IN  [position |-> Pt(R(BALL_START_X), R(BALL_START_Y)),
         speed |-> Pt(IF bx # 0 THEN RMul(x0, R(-1)) ELSE x0,
                      RMul(y0, RAdd(RMul(r, IF by # 0 THEN R(-1) ELSE R(1)),
                                    Q(1, 10))))]

\* Startup state, the return key pressed while no start is pending.
PressReturn ==
    /\ pc = "main"
    /\ gameState = 0
    /\ gameStarting = 0
    /\ gameStarting' = 1
    /\ TakeTime
    /\ printed' = Line("Starting the game in 3 seconds...", 0, 0)
    /\ UNCHANGED <<gameState, ball, p1, p2, ballRect, paddleCol, wallCol,
                   ballNextA, ballNextB, slopes, ballIn,
                   frames, hits, pc>>

\* A clock tick passes while a start is pending.
Tick ==
    /\ pc = "main"
    /\ gameStarting = 1
    /\ elapsed < MaxElapsed
    /\ waited' = waited + 1
    /\ elapsed' = (sinceFrac + waited') \div TicksPerSecond
    /\ UNCHANGED <<gameState, gameStarting, sinceFrac, printed, ball, p1, p2,
                   ballRect, paddleCol, wallCol, ballNextA, ballNextB, slopes,
                   ballIn, frames, hits, pc>>

\* Startup state, 3 seconds after the return key: the match begins.
StartMatch ==
    /\ pc = "main"
    /\ gameState = 0
    /\ gameStarting = 1
    /\ elapsed >= 3
    /\ \E bx \in RandBits, r \in RandFracs, by \in RandBits :
           ball' = ServedBall(bx, r, by)
    /\ p1' = [position |-> Pt(R(P1_START_X), R(P1_START_Y)), score |-> 0]
    /\ p2' = [position |-> Pt(R(P2_START_X), R(P2_START_Y)), score |-> 0]
    /\ gameStarting' = 0
    /\ gameState' = gameState + 1
    /\ frames' = 0
    /\ hits' = 0
    /\ DropTime
    /\ UNCHANGED <<printed, ballRect, paddleCol, wallCol, ballNextA,
                   ballNextB, slopes, ballIn, pc>>

\* Fault variant of MoveUp: the paddle is not stopped at the ceiling.
MoveUpUnlimited(paddle) ==
    [paddle EXCEPT !.position.y = RSub(paddle.position.y, R(PADDLE_SPEED))]

\* "Check movement controls and update paddle positions", one key: the
\* paddle after the key, were it pressed.
MoveUp(paddle) ==
    LET newY == RSub(paddle.position.y, R(PADDLE_SPEED))
    IN  [paddle EXCEPT !.position.y = IF RGt(newY, R(0)) THEN newY ELSE R(0)]

MoveDown(paddle) ==
    LET newY == RAdd(paddle.position.y, R(PADDLE_SPEED))
        lim == R(WINDOW_HEIGHT - PADDLE_HEIGHT)
    IN  [paddle EXCEPT !.position.y = IF RLt(newY, lim) THEN newY ELSE lim]

\* The paddle after its two keys were sampled, the up key first.
MovePaddle(paddle, up, down) ==
    LET a == IF up THEN MoveUp(paddle) ELSE paddle
    IN  IF down THEN MoveDown(a) ELSE a

\* p1Dir, p2Dir.
PaddleDir(up, down) == (IF up THEN -1 ELSE 0) + (IF down THEN 1 ELSE 0)

\* sfFloatRect_intersects of the paddle's rectangle and the ball's.
RectIntersects(paddlePos, ballPos) ==
    LET interLeft == MAX(paddlePos.x, ballPos.x)
        interTop == MAX(paddlePos.y, ballPos.y)
        interRight == MIN(RAdd(paddlePos.x, R(PADDLE_WIDTH)),
                          RAdd(ballPos.x, R(BALL_SIZE)))
        interBottom == MIN(RAdd(paddlePos.y, R(PADDLE_HEIGHT)),
                           RAdd(ballPos.y, R(BALL_SIZE)))
    IN  RLt(interLeft, interRight) /\ RLt(interTop, interBottom)

\* "Check if the ball intersects a paddle after paddle movement": the ball
\* after the push by a moving paddle it overlaps.
PushedBall(b, rect, paddle, dir) ==
    IF RectIntersects(paddle.position, rect) /\ dir # 0
    THEN [b EXCEPT !.speed.y =
              RAdd(R(Abs(Trunc(b.speed.y)) * dir),
                   IF dir = 1 THEN R(PADDLE_SPEED) ELSE R(0 - PADDLE_SPEED))]
    ELSE b

\* Fault variant of ClampSpeedY: velocity.y is not limited.
ClampSpeedYOmitted(speed) == speed

\* The clamp of velocity.y that ends the paddle response.
ClampSpeedY(speed) ==
    LET hi == MAX(RMul(speed.x, R(3)), RMul(speed.x, R(-3)))
        lo == MIN(RMul(speed.x, R(3)), RMul(speed.x, R(-3)))
    IN  IF RGe(speed.y, hi) THEN Pt(speed.x, hi)
        ELSE IF RLe(speed.y, lo) THEN Pt(speed.x, lo)
        ELSE speed

\* Fault variant of PaddleResponse: a hit on a paddle's face reverses
\* velocity.x and takes 0.5 off its magnitude.
PaddleResponseSlower(b, col, nextA, q1, q2) ==
    [position |-> nextA,
     speed |-> ClampSpeedY(
         IF col.side = LEFT
         THEN Pt(RAdd(RMul(b.speed.x, R(-1)), Q(1, 2)), b.speed.y)
         ELSE IF col.side = RIGHT
         THEN Pt(RSub(RMul(b.speed.x, R(-1)), Q(1, 2)), b.speed.y)
         ELSE Pt(b.speed.x, RMul(b.speed.y, R(-1))))]

\* Fault variant of PaddleResponse: a hit on a paddle's face reverses
\* velocity.x without the 0.5 that the code adds to its magnitude.
PaddleResponseSameSpeed(b, col, nextA, q1, q2) ==
    [position |-> nextA,
     speed |-> ClampSpeedY(IF col.side \in {LEFT, RIGHT}
                           THEN Pt(RMul(b.speed.x, R(-1)), b.speed.y)
                           ELSE Pt(b.speed.x, RMul(b.speed.y, R(-1))))]

\* "Check outcomes of ball-paddle collision tests and set ball speed and
\* position accordingly": the ball after the paddle response.
PaddleResponse(b, col, nextA, q1, q2) ==
    LET half == Q(1, 2)
        centre(q) == RAdd(q.position.y, RMul(half, R(PADDLE_HEIGHT)))
        spin(q) == RDiv(RSub(RAdd(nextA.y, RMul(half, R(BALL_SIZE))), centre(q)),
                        R(5))
        speed ==
            IF col.side = LEFT
            THEN Pt(RSub(RMul(b.speed.x, R(-1)), half), RAdd(b.speed.y, spin(q2)))
            ELSE IF col.side = RIGHT
            THEN Pt(RAdd(RMul(b.speed.x, R(-1)), half), RAdd(b.speed.y, spin(q1)))
            ELSE Pt(b.speed.x, RMul(b.speed.y, R(-1)))
    IN  [position |-> nextA, speed |-> ClampSpeedY(speed)]

\* Fault variant of WallResponse: the floor and the ceiling do not reflect.
WallResponseNoBounce(b, col, nextB) == b

\* "Check outcomes of ball-wall collision tests ...": the ball after the
\* wall response.  No branch assigns ball.position.
WallResponse(b, col, nextB) ==
    IF col.side = TOP \/ col.side = BOTTOM
    THEN [b EXCEPT !.speed.y = RMul(b.speed.y, R(-1))]
    ELSE b

\* Fault variant of Advance: only position.x is integrated.
AdvanceXOnly(b) == [b EXCEPT !.position.x = RAdd(b.position.x, b.speed.x)]

\* "If no collisions occured, update the balls position ..."
Advance(b) ==
    [b EXCEPT !.position = Pt(RAdd(b.position.x, b.speed.x),
                              RAdd(b.position.y, b.speed.y))]

\* Fault variant of ClampBallY: the end-of-frame clamp is left out.
ClampBallYOmitted(b) == b

\* "Double check if the ball is out of bounds to handle an edge case".
ClampBallY(b) ==
    IF RLe(b.position.y, R(0))
    THEN [b EXCEPT !.position.y = Q(1, 10)]
    ELSE IF RGe(b.position.y, R(WINDOW_HEIGHT))
    THEN [b EXCEPT !.position.y =
              RSub(RSub(R(WINDOW_HEIGHT), R(BALL_SIZE)), Q(1, 10))]
    ELSE b

\* Fault variant of Respond: the wall result is examined before the
\* paddle result.
RespondWallFirst(b, pr, wr, q1, q2) ==
    IF wr.ret.collides = 1
    THEN WallResponse(b, wr.ret, wr.newPosition)
    ELSE IF pr.ret.collides = 1
    THEN PaddleResponse(b, pr.ret, pr.newPosition, q1, q2)
    ELSE Advance(b)

\* The if / else-if / else chain of the collision response: the ball after
\* the paddle response, else the wall response, else the free advance.
Respond(b, pr, wr, q1, q2) ==
    IF pr.ret.collides = 1
    THEN PaddleResponse(b, pr.ret, pr.newPosition, q1, q2)
    ELSE IF wr.ret.collides = 1
    THEN WallResponse(b, wr.ret, wr.newPosition)
    ELSE Advance(b)

\* Fault variant of WallScore: a score counts two points.
WallScoreDouble(paddle, col, side) ==
    IF col.side = side
    THEN [paddle EXCEPT !.score = paddle.score + 2]
    ELSE paddle

\* Fault variant of WallScore: the point goes to the player who concedes.
WallScoreSwapped(paddle, col, side) ==
    IF col.side \in {LEFT, RIGHT} /\ col.side # side
    THEN [paddle EXCEPT !.score = paddle.score + 1]
    ELSE paddle

\* The wall response's "++p.score" for the player who scores at wall
\* "side": the paddle after the wall collision "col" was handled.
WallScore(paddle, col, side) ==
    IF col.side = side
    THEN [paddle EXCEPT !.score = paddle.score + 1]
    ELSE paddle

\* The paddle the round loop passes to getPaddleCollision for ball b, of
\* player 1's paddle q1 and player 2's paddle q2.
FacedPaddle(b, q1, q2) == IF RGe(b.speed.x, R(0)) THEN q2 ELSE q1

\* The end of an iteration of the round loop, from "Check outcomes of
\* ball-paddle collision tests" on: the paddles are q1 and q2, the
\* resolvers were given ball b and returned pr and wr.
FrameResponse(q1, q2, b, pr, wr) ==
    /\ paddleCol' = pr.ret
    /\ ballNextA' = pr.newPosition
    /\ wallCol' = wr.ret
    /\ ballNextB' = wr.newPosition
    /\ slopes' = [paddle |-> pr.slope, wall |-> wr.slope]
    /\ ballIn' = b
    /\ ball' = ClampBallY(Respond(b, pr, wr, q1, q2))
    /\ ballRect' = ball'.position
    /\ LET walled == paddleCol'.collides = 0 /\ wallCol'.collides = 1
           scored == walled /\ wallCol'.side \in {LEFT, RIGHT}
       IN  /\ p1' = IF walled THEN WallScore(q1, wallCol', RIGHT) ELSE q1
           /\ p2' = IF walled THEN WallScore(q2, wallCol', LEFT) ELSE q2
           /\ gameState' = IF scored THEN gameState + 1 ELSE gameState
           /\ printed' = IF scored
                         THEN Line("Score is: %d to %d", p1'.score, p2'.score)
                         ELSE printed
    /\ hits' = hits + paddleCol'.collides

\* The iteration from the two resolver calls on, for the pushed ball b.
FrameCollisions(q1, q2, b) ==
    FrameResponse(q1, q2, b,
                  getPaddleCollision(b, FacedPaddle(b, q1, q2), ZeroPoint),
                  getWallCollision(b, ZeroPoint))

\* The iteration from "Check if the ball intersects a paddle after paddle
\* movement" on, for the moved paddles q1 and q2; ballXDir was read from
\* the ball before the paddles moved.
FramePush(q1, q2, p1Dir, p2Dir) ==
    LET ballXDir == IF RGe(ball.speed.x, R(0)) THEN 1 ELSE 0
    IN  FrameCollisions(q1, q2,
            IF ballXDir = 1 THEN PushedBall(ball, ballRect, q2, p2Dir)
                            ELSE PushedBall(ball, ballRect, q1, p1Dir))

\* One iteration of the round loop state with the keys "keys" pressed.
Frame(keys) ==
    /\ pc = "main"
    /\ gameState = 1
    /\ frames < MaxFrames
    /\ hits < MaxHits
    /\ FramePush(MovePaddle(p1, "W" \in keys, "S" \in keys),
                 MovePaddle(p2, "Up" \in keys, "Down" \in keys),
                 PaddleDir("W" \in keys, "S" \in keys),
                 PaddleDir("Up" \in keys, "Down" \in keys))
    /\ frames' = frames + 1
    /\ UNCHANGED <<gameStarting, elapsed, sinceFrac, waited, pc>>

\* Fault variant of Winner: the player with the lower score is named.
WinnerIsLoser(score1, score2) == IF score1 >= score2 THEN 2 ELSE 1

\* (MAX(p1.score, p2.score) == p1.score) ? 1 : 2
Winner(score1, score2) ==
    IF (IF score1 >= score2 THEN score1 ELSE score2) = score1 THEN 1 ELSE 2

\* New round state, no start pending and a score at 9: the match is over.
MatchOver ==
    /\ pc = "main"
    /\ gameState = 2
    /\ gameStarting = 0
    /\ (p1.score >= 9 \/ p2.score >= 9)
    /\ printed' = Line("Player %d wins!", Winner(p1.score, p2.score), 0)
    /\ gameState' = 0
    /\ UNCHANGED <<gameStarting, elapsed, sinceFrac, waited, ball, p1, p2,
                   ballRect, paddleCol, wallCol, ballNextA, ballNextB, slopes,
                   ballIn, frames, hits, pc>>

\* New round state, no start pending and both scores below 9: the delay
\* before the next round begins.
ArmRound ==
    /\ pc = "main"
    /\ gameState = 2
    /\ gameStarting = 0
    /\ ~(p1.score >= 9 \/ p2.score >= 9)
    /\ TakeTime
    /\ gameStarting' = 1
    /\ UNCHANGED <<gameState, printed, ball, p1, p2, ballRect, paddleCol,
                   wallCol, ballNextA, ballNextB, slopes, ballIn,
                   frames, hits, pc>>

\* New round state, 1 second after the delay began: the next round.
NewRound ==
    /\ pc = "main"
    /\ gameState = 2
    /\ gameStarting = 1
    /\ elapsed >= 1
    /\ \E bx \in RandBits, r \in RandFracs, by \in RandBits :
           ball' = ServedBall(bx, r, by)
    /\ p1' = [p1 EXCEPT !.position = Pt(R(P1_START_X), R(P1_START_Y))]
    /\ p2' = [p2 EXCEPT !.position = Pt(R(P2_START_X), R(P2_START_Y))]
    /\ gameStarting' = 0
    /\ gameState' = gameState - 1
    /\ frames' = 0
    /\ hits' = 0
    /\ DropTime
    /\ UNCHANGED <<printed, ballRect, paddleCol, wallCol, ballNextA,
                   ballNextB, slopes, ballIn, pc>>

\* A whole match.
Next ==
    \/ PressReturn
    \/ Tick
    \/ StartMatch
    \/ \E keys \in MatchKeys : Frame(keys)
    \/ MatchOver
    \/ ArmRound
    \/ NewRound

Spec == Init /\ [][Next]_vars

\* The first round of a match, with the paddles moving.
NextRally ==
    \/ PressReturn
    \/ Tick
    \/ StartMatch
    \/ \E keys \in RallyKeys : Frame(keys)

SpecRally == Init /\ [][NextRally]_vars

---------------------------------------------------------------------------
(* Properties of a frame of the round loop.                                *)

\* The step is one iteration of the round loop.
FrameStep == gameState = 1 /\ frames' = frames + 1

\* The resolvers of the step reported: no paddle collision and a wall
\* collision at side "side".
WallOnly(side) ==
    /\ paddleCol'.collides = 0
    /\ wallCol'.collides = 1
    /\ wallCol'.side = side

\* The last frame's resolvers reported no paddle collision and a wall
\* collision at side "side".
WasWallOnly(side) ==
    /\ frames > 0
    /\ paddleCol.collides = 0
    /\ wallCol.collides = 1
    /\ wallCol.side = side

C4_AsStated ==
    [][FrameStep /\ (WallOnly(TOP) \/ WallOnly(BOTTOM)) =>
         /\ ball'.speed.y = RNeg(ball.speed.y)
         /\ ball'.speed.x = ball.speed.x
         /\ p1'.score = p1.score
         /\ p2'.score = p2.score
         /\ gameState' = 1]_vars

\* C4 amended: in such a frame velocity.y ends as the negation of the
\* velocity.y the resolvers were called with, that is the value after the
\* push of a moving paddle the ball overlaps; velocity.x and both scores
\* are unchanged and the game stays in the round loop state.
C4_FloorCeilingBounce ==
    [][FrameStep /\ (WallOnly(TOP) \/ WallOnly(BOTTOM)) =>
         /\ ball'.speed.y = RNeg(ballIn'.speed.y)
         /\ ball'.speed.x = ball.speed.x
         /\ p1'.score = p1.score
         /\ p2'.score = p2.score
         /\ gameState' = 1]_vars

C4_Witness ==
    /\ WasWallOnly(TOP) \/ WasWallOnly(BOTTOM)
    /\ gameState = 1
    /\ ball.speed.y = RNeg(ballIn.speed.y)
    /\ ball.speed.y.n # 0

\* C5: after a frame whose paddle resolver reports no collision and whose
\* wall resolver reports TOP or BOTTOM, the ball is at the corrected
\* position getWallCollision returned.
C5_SnappedToWall ==
    (WasWallOnly(TOP) \/ WasWallOnly(BOTTOM)) => ball.position = ballNextB

\* C6 as stated: a frame in which both resolvers report a collision
\* applies the paddle response only: the ball is at the paddle resolver's
\* corrected position with the paddle response's velocity, no score
\* changes and the game stays in the round loop state.
C6_AsStated ==
    [][FrameStep /\ paddleCol'.collides = 1 /\ wallCol'.collides = 1 =>
         /\ ball'.position = ballNextA'
         /\ ball'.speed =
                PaddleResponse(ballIn', paddleCol', ballNextA', p1', p2').speed
         /\ p1'.score = p1.score
         /\ p2'.score = p2.score
         /\ gameState' = 1]_vars

\* C6 amended: in such a frame the ball is at the paddle resolver's
\* corrected position as the end-of-frame clamp leaves it (y = 0.1 when
\* the corrected y is <= 0, y = 579.9 when it is >= 600), with the paddle
\* response's velocity; no score changes and the game stays in the round
\* loop state.
C6_PaddlePriority ==
    [][FrameStep /\ paddleCol'.collides = 1 /\ wallCol'.collides = 1 =>
         /\ ball'.position =
                ClampBallY([position |-> ballNextA', speed |-> ZeroPoint]).position
         /\ ball'.speed =
                PaddleResponse(ballIn', paddleCol', ballNextA', p1', p2').speed
         /\ p1'.score = p1.score
         /\ p2'.score = p2.score
         /\ gameState' = 1]_vars

C6_Witness ==
    /\ frames > 0
    /\ gameState = 1
    /\ paddleCol.collides = 1
    /\ wallCol.collides = 1
    /\ ball.position # ballNextA

\* C9: in every state of the round loop the ball body is vertically
\* inside the arena, to within the 0.1 epsilon.
C9_BallInsideArena ==
    gameState = 1 =>
        /\ RGe(ball.position.y, Q(-1, 10))
        /\ RLe(RAdd(ball.position.y, R(BALL_SIZE)),
               RAdd(R(WINDOW_HEIGHT), Q(1, 10)))

\* C10: after every frame of the round loop, 0 < ball.position.y < 600.
C10_ClampedY ==
    frames > 0 =>
        /\ RGt(ball.position.y, R(0))
        /\ RLt(ball.position.y, R(WINDOW_HEIGHT))

C10_Witness ==
    /\ frames > 0
    /\ RLe(ballNextA.y, R(0))
    /\ paddleCol.collides = 1
    /\ REq(ball.position.y, Q(1, 10))

---------------------------------------------------------------------------
(* The two resolvers applied to drawn balls and paddles, as the round loop *)
(* calls them.                                                             *)

\* Ball positions that are drawn: x around both paddles, at both side walls
\* and in midfield, y around the paddles' ends, clear above and below a
\* centred paddle, and at the floor and the ceiling.
ProbeX == {0, 3, 60, 98, 110, 390, 640, 677, 690, 777, 780}

ProbeY == {0, 2, 225, 235, 290, 345, 355, 578, 580, 590}

\* Velocity components that are drawn; 60 exceeds the paddle's and the
\* ball's width together.
ProbeVX == {-60, -5, 0, 5, 60}

ProbeVY == {-30, -3, 0, 3, 30}

\* Paddle heights that are drawn.
ProbePaddleY == {0, 250, 500}

\* The value the out-parameters hold before the first call.
Unwritten == Pt(R(-1), R(-1))

InitResolve ==
    /\ gameState = 1
    /\ gameStarting = 0
    /\ elapsed = 0
    /\ sinceFrac = 0
    /\ waited = 0
    /\ printed = Line("Starting the game in 3 seconds...", 0, 0)
    /\ \E x \in ProbeX, y \in ProbeY, vx \in ProbeVX, vy \in ProbeVY :
           ball = [position |-> Pt(R(x), R(y)), speed |-> Pt(R(vx), R(vy))]
    /\ \E y \in ProbePaddleY :
           /\ p1 = [position |-> Pt(R(P1_START_X), R(y)), score |-> 0]
           /\ p2 = [position |-> Pt(R(P2_START_X), R(y)), score |-> 0]
    /\ ballRect = ball.position
    /\ paddleCol = NoCollision
    /\ wallCol = NoCollision
    /\ ballNextA = Unwritten
    /\ ballNextB = Unwritten
    /\ slopes = [paddle |-> NoSlope, wall |-> NoSlope]
    /\ ballIn = ball
    /\ frames = 0
    /\ hits = 0
    /\ pc = "call"

\* The two resolver calls of the round loop.
StoreResults(pr, wr) ==
    /\ paddleCol' = pr.ret
    /\ ballNextA' = pr.newPosition
    /\ wallCol' = wr.ret
    /\ ballNextB' = wr.newPosition
    /\ slopes' = [paddle |-> pr.slope, wall |-> wr.slope]

CallResolvers ==
    /\ pc = "call"
    /\ StoreResults(getPaddleCollision(ball, FacedPaddle(ball, p1, p2), ballNextA),
                    getWallCollision(ball, ballNextB))
    /\ ballIn' = ball
    /\ pc' = "returned"
    /\ UNCHANGED <<gameState, gameStarting, elapsed, sinceFrac, waited,
                   printed, ball, p1, p2, ballRect, frames, hits>>

\* Velocity "speed" with its component along the normal of "side" zeroed.
ZeroNormal(speed, side) ==
    IF side \in {LEFT, RIGHT} THEN Pt(R(0), speed.y) ELSE Pt(speed.x, R(0))

\* The ball is put at getPaddleCollision's corrected position with no
\* velocity along the collision normal, and getPaddleCollision is called
\* again with the same paddle.
SnapPaddle ==
    /\ pc = "returned"
    /\ paddleCol.collides = 1
    /\ LET b == [position |-> ballNextA,
                 speed |-> ZeroNormal(ball.speed, paddleCol.side)]
           pr == getPaddleCollision(b, FacedPaddle(ballIn, p1, p2), ballNextA)
       IN  /\ ball' = b
           /\ paddleCol' = pr.ret
           /\ ballNextA' = pr.newPosition
           /\ slopes' = [slopes EXCEPT !.paddle = pr.slope]
    /\ pc' = "snappedPaddle"
    /\ UNCHANGED <<gameState, gameStarting, elapsed, sinceFrac, waited,
                   printed, p1, p2, ballRect, wallCol, ballNextB, ballIn,
                   frames, hits>>

\* The same for getWallCollision.
SnapWall ==
    /\ pc = "returned"
    /\ wallCol.collides = 1
    /\ LET b == [position |-> ballNextB,
                 speed |-> ZeroNormal(ball.speed, wallCol.side)]
           wr == getWallCollision(b, ballNextB)
       IN  /\ ball' = b
           /\ wallCol' = wr.ret
           /\ ballNextB' = wr.newPosition
           /\ slopes' = [slopes EXCEPT !.wall = wr.slope]
    /\ pc' = "snappedWall"
    /\ UNCHANGED <<gameState, gameStarting, elapsed, sinceFrac, waited,
                   printed, p1, p2, ballRect, paddleCol, ballNextA, ballIn,
                   frames, hits>>

\* The rest of the iteration after the two resolver calls: the collision
\* response, the free advance and the end-of-frame clamp.
RespondCollisions ==
    /\ pc = "returned"
    /\ FrameResponse(p1, p2, ball,
                     [ret |-> paddleCol, newPosition |-> ballNextA,
                      slope |-> slopes.paddle],
                     [ret |-> wallCol, newPosition |-> ballNextB,
                      slope |-> slopes.wall])
    /\ pc' = "responded"
    /\ UNCHANGED <<gameStarting, elapsed, sinceFrac, waited, frames>>

NextResolve ==
    \/ CallResolvers
    \/ SnapPaddle
    \/ SnapWall
    \/ RespondCollisions

SpecResolve == InitResolve /\ [][NextResolve]_vars

---------------------------------------------------------------------------
(* Properties of the resolvers.                                            *)

\* v lies between a and b (either order), ends included.
Between(v, a, b) == RLe(MIN(a, b), v) /\ RGe(MAX(a, b), v)

\* The swept segment of vertex "vertex" of ball b reaches the vertical
\* line x = lineX at a y within [loY, hiY].
ReachesVerticalEdge(b, vertex, lineX, loY, hiY) ==
    LET V == Ball_getVertex(b, vertex)
        t == RDiv(RSub(lineX, V.x), b.speed.x)
        y == RAdd(V.y, RMul(t, b.speed.y))
    IN  /\ Between(lineX, V.x, RAdd(V.x, b.speed.x))
        /\ RLe(loY, y) /\ RLe(y, hiY)

\* The swept segment of vertex "vertex" of ball b reaches the horizontal
\* line y = lineY at an x within [loX, hiX] (speed.y # 0).
ReachesHorizontalEdge(b, vertex, lineY, loX, hiX) ==
    LET V == Ball_getVertex(b, vertex)
        t == RDiv(RSub(lineY, V.y), b.speed.y)
        x == RAdd(V.x, RMul(t, b.speed.x))
    IN  /\ Between(lineY, V.y, RAdd(V.y, b.speed.y))
        /\ RLe(loX, x) /\ RLe(x, hiX)

\* Conditions (a) and (b) of the no-tunnelling property for ball b and
\* paddle "paddle".
SweptContact(b, paddle) ==
    LET left == paddle.position.x
        right == RAdd(paddle.position.x, R(PADDLE_WIDTH))
        top == paddle.position.y
        bottom == RAdd(paddle.position.y, R(PADDLE_HEIGHT))
        leadH == IF RGt(b.speed.x, R(0)) THEN {1, 2} ELSE {0, 3}
        faceX == IF RGt(b.speed.x, R(0)) THEN left ELSE right
        leadV == IF RGt(b.speed.y, R(0)) THEN {2, 3} ELSE {0, 1}
        faceY == IF RGt(b.speed.y, R(0)) THEN top ELSE bottom
    IN  \/ \E v \in leadH : ReachesVerticalEdge(b, v, faceX, top, bottom)
        \/ /\ ~REq(b.speed.y, R(0))
           /\ \E v \in leadV : ReachesHorizontalEdge(b, v, faceY, left, right)

\* C1: for a ball with velocity.x # 0, getPaddleCollision reports a
\* collision exactly when, within the frame's displacement, a vertex of the
\* horizontally leading edge reaches the facing vertical paddle edge
\* inside the paddle's vertical extent, or velocity.y # 0 and a vertex of
\* the vertically leading edge reaches the facing horizontal paddle edge
\* inside the paddle's horizontal extent.
C1_NoTunnelling ==
    (pc = "returned" /\ ~REq(ballIn.speed.x, R(0))) =>
        (paddleCol.collides = 1 <=> SweptContact(ballIn, FacedPaddle(ballIn, p1, p2)))

\* A reported collision of a ball that the frame's displacement would carry
\* from one side of the paddle clean to the other.
C1_Witness ==
    /\ pc = "returned"
    /\ paddleCol.collides = 1
    /\ REq(ballIn.speed.x, R(60))
    /\ RLt(RAdd(ballIn.position.x, R(BALL_SIZE)), p2.position.x)
    /\ RGt(RAdd(ballIn.position.x, ballIn.speed.x),
           RAdd(p2.position.x, R(PADDLE_WIDTH)))

\* The swept segment of the leading vertex of ball b touches or crosses
\* one of the lines x = 0, x = 800, y = 0, y = 600.
TouchesBoundary(b) ==
    LET lead == IF RGe(b.speed.x, R(0))
                THEN (IF RGe(b.speed.y, R(0)) THEN 2 ELSE 1)
                ELSE (IF RGe(b.speed.y, R(0)) THEN 3 ELSE 0)
        V == Ball_getVertex(b, lead)
        N == Pt(RAdd(V.x, b.speed.x), RAdd(V.y, b.speed.y))
    IN  \/ Between(R(0), V.x, N.x)
        \/ Between(R(WINDOW_WIDTH), V.x, N.x)
        \/ Between(R(0), V.y, N.y)
        \/ Between(R(WINDOW_HEIGHT), V.y, N.y)

\* The contact of collision "col" lies on the boundary named by its side.
OnReportedBoundary(col) ==
    CASE col.side = LEFT -> REq(col.position.x, R(0))
      [] col.side = RIGHT -> REq(col.position.x, R(WINDOW_WIDTH))
      [] col.side = TOP -> REq(col.position.y, R(0))
      [] col.side = BOTTOM -> REq(col.position.y, R(WINDOW_HEIGHT))

\* C2: for a ball with velocity.x # 0, getWallCollision reports a
\* collision exactly when the swept segment of the leading vertex touches
\* or crosses an arena boundary line, and a reported contact lies exactly
\* on the reported boundary.
C2_WallContact ==
    (pc = "returned" /\ ~REq(ballIn.speed.x, R(0))) =>
        /\ wallCol.collides = 1 <=> TouchesBoundary(ballIn)
        /\ wallCol.collides = 1 => OnReportedBoundary(wallCol)

C2_Witness ==
    /\ pc = "returned"
    /\ wallCol.collides = 1
    /\ wallCol.side = RIGHT
    /\ REq(wallCol.position.x, R(WINDOW_WIDTH))
    /\ ~REq(ballIn.speed.x, R(0))

\* C7: after the ball is put at the corrected position a resolver returned
\* with a collision and its velocity along the collision normal is zeroed,
\* the same resolver reports no collision at that side.
C7_SnapIdempotent ==
    [][/\ (pc = "returned" /\ pc' = "snappedPaddle") =>
              ~(paddleCol'.collides = 1 /\ paddleCol'.side = paddleCol.side)
       /\ (pc = "returned" /\ pc' = "snappedWall") =>
              ~(wallCol'.collides = 1 /\ wallCol'.side = wallCol.side)]_vars

\* C8: with velocity.x = 0 both resolvers report no collision, leave their
\* slope unassigned and leave their out-parameter as it was.
C8_VerticalPathRejected ==
    [][(pc = "call" /\ pc' = "returned" /\ REq(ball.speed.x, R(0))) =>
           /\ paddleCol'.collides = 0
           /\ wallCol'.collides = 0
           /\ slopes' = [paddle |-> NoSlope, wall |-> NoSlope]
           /\ ballNextA' = ballNextA
           /\ ballNextB' = ballNextB]_vars

\* Such a call for a ball that lies on the floor and overlaps the paddle
\* it is passed with.
C8_Witness ==
    /\ pc = "returned"
    /\ REq(ballIn.speed.x, R(0))
    /\ REq(ballIn.speed.y, R(30))
    /\ REq(ballIn.position.y, R(580))
    /\ REq(ballIn.position.x, R(690))
    /\ REq(p2.position.y, R(500))
    /\ paddleCol.collides = 0
    /\ ballNextA = Unwritten

---------------------------------------------------------------------------
(* Properties of the collision response.                                   *)

\* The iteration's response to the resolvers' results has been applied to
\* the drawn ball, which a paddle collision was reported for.
PaddleResponded == pc = "responded" /\ paddleCol.collides = 1

\* C11: the response to a paddle collision reported on side LEFT finds
\* velocity.x positive and makes it -old - 0.5, on side RIGHT finds it
\* negative and makes it -old + 0.5, and on side TOP or BOTTOM leaves it
\* unchanged.
C11_FaceHitReverses ==
    PaddleResponded =>
        /\ paddleCol.side = LEFT =>
               /\ RGt(ballIn.speed.x, R(0))
               /\ REq(ball.speed.x, RSub(RNeg(ballIn.speed.x), Q(1, 2)))
               /\ RLt(ball.speed.x, R(0))
        /\ paddleCol.side = RIGHT =>
               /\ RLt(ballIn.speed.x, R(0))
               /\ REq(ball.speed.x, RAdd(RNeg(ballIn.speed.x), Q(1, 2)))
               /\ RGt(ball.speed.x, R(0))
        /\ paddleCol.side \in {TOP, BOTTOM} =>
               REq(ball.speed.x, ballIn.speed.x)

\* Player 2's paddle was hit on its face at velocity.x = 5.
C11_Witness ==
    /\ PaddleResponded
    /\ paddleCol.side = LEFT
    /\ REq(ballIn.speed.x, R(5))
    /\ REq(ball.speed.x, Q(-11, 2))

\* The magnitude of the rational a.
RAbs(a) == IF RLt(a, R(0)) THEN RNeg(a) ELSE a

\* C12: after the response to a reported paddle collision, on any side,
\* |velocity.y| <= 3 * |velocity.x|.
C12_SteepnessLimited ==
    PaddleResponded =>
        RLe(RAbs(ball.speed.y), RMul(R(3), RAbs(ball.speed.x)))

\* The top of a paddle was hit at velocity (5, 30): the reflected
\* velocity.y of -30 was limited to -15.
C12_Witness ==
    /\ PaddleResponded
    /\ paddleCol.side = TOP
    /\ ballIn.speed = Pt(R(5), R(30))
    /\ ball.speed = Pt(R(5), R(-15))

\* Reflection about the arena's vertical centre line x = WINDOW_WIDTH / 2:
\* of a point, of the top-left position of a ball, of a ball, of a paddle
\* and of a side.
MirrorPoint(p) == Pt(RSub(R(WINDOW_WIDTH), p.x), p.y)

MirrorBallPosition(p) == Pt(RSub(R(WINDOW_WIDTH - BALL_SIZE), p.x), p.y)

MirrorBall(b) ==
    [position |-> MirrorBallPosition(b.position),
     speed |-> Pt(RNeg(b.speed.x), b.speed.y)]

MirrorPaddle(q) ==
    [q EXCEPT !.position.x = RSub(R(WINDOW_WIDTH - PADDLE_WIDTH), q.position.x)]

MirrorSide(side) ==
    CASE side = LEFT -> RIGHT
      [] side = RIGHT -> LEFT
      [] OTHER -> side

\* The stored results of getPaddleCollision and of the response, for a ball
\* with velocity (vx, 0), are the mirror image of what the mirrored ball
\* and paddle yield: mr is getPaddleCollision's result for them and mb the
\* mirrored ball after the response.
MirroredOutcome(mr, mb) ==
    /\ mr.ret.collides = paddleCol.collides
    /\ paddleCol.collides = 1 =>
           /\ paddleCol.side \in {LEFT, RIGHT}
           /\ mr.ret.side = MirrorSide(paddleCol.side)
           /\ mr.ret.position = MirrorPoint(paddleCol.position)
           /\ mr.newPosition = MirrorBallPosition(ballNextA)
           /\ mb.speed.x = RNeg(ball.speed.x)
           /\ RLt(RMul(mb.speed.x, ball.speed.x), R(0))

MirroredResponse(mr, q1, q2) ==
    MirroredOutcome(mr, PaddleResponse(MirrorBall(ballIn), mr.ret,
                                       mr.newPosition, q1, q2))

\* C13: for a ball with velocity (vx, 0), vx # 0, getPaddleCollision and
\* the paddle response give mirrored results on the configuration
\* reflected about a vertical axis: a collision is reported in both or in
\* neither, on sides LEFT and RIGHT, with mirrored contact points and
\* corrected positions and with opposite values of velocity.x.
C13_MirrorSymmetry ==
    (/\ pc = "responded"
     /\ ballIn.speed.y = R(0)
     /\ ballIn.speed.x # R(0)) =>
        MirroredResponse(
            getPaddleCollision(MirrorBall(ballIn),
                               MirrorPaddle(FacedPaddle(ballIn, p1, p2)),
                               Unwritten),
            MirrorPaddle(p2), MirrorPaddle(p1))

\* A level ball that hit the LEFT edge of player 2's paddle.
C13_Witness ==
    /\ PaddleResponded
    /\ ballIn.speed.y = R(0)
    /\ RGt(ballIn.speed.x, R(0))
    /\ paddleCol.side = LEFT
    /\ ballNextA.x = R(P2_START_X - BALL_SIZE)

\* The response has been applied to a drawn ball neither resolver reported
\* a collision for.
FreeFrame ==
    pc = "responded" /\ paddleCol.collides = 0 /\ wallCol.collides = 0

\* Position p with the end-of-frame limits on y applied.
WithinFloorAndCeiling(p) ==
    Pt(p.x, IF RLe(p.y, R(0)) THEN Q(1, 10)
            ELSE IF RGe(p.y, R(WINDOW_HEIGHT))
                 THEN Q(10 * (WINDOW_HEIGHT - BALL_SIZE) - 1, 10)
                 ELSE p.y)

\* C14: when neither resolver reports a collision, the ball's position
\* after the iteration is its position before plus its velocity, up to
\* the end-of-frame clamp of y, and its velocity is unchanged; a ball at
\* (390, 290) with velocity (5, 3) and player 2's paddle at (700, 250) is
\* such a case and ends at (395, 293).
C14_FreeAdvance ==
    /\ FreeFrame =>
           /\ ball.position =
                  WithinFloorAndCeiling(
                      Pt(RAdd(ballIn.position.x, ballIn.speed.x),
                         RAdd(ballIn.position.y, ballIn.speed.y)))
           /\ ball.speed = ballIn.speed
    /\ (/\ pc = "responded"
        /\ ballIn = [position |-> Pt(R(390), R(290)),
                     speed |-> Pt(R(5), R(3))]
        /\ p2.position = Pt(R(700), R(250))) =>
           /\ FreeFrame
           /\ ball.position = Pt(R(395), R(293))

C14_Witness ==
    /\ FreeFrame
    /\ ballIn = [position |-> Pt(R(390), R(290)), speed |-> Pt(R(5), R(3))]
    /\ p2.position = Pt(R(700), R(250))
    /\ ball = [position |-> Pt(R(395), R(293)), speed |-> Pt(R(5), R(3))]

---------------------------------------------------------------------------
(* Properties of the match.                                                *)

\* The main loop keeps iterating while the window is open: the new round
\* state does not wait for ever to take its match-over branch.
SpecLive == Spec /\ WF_vars(MatchOver)

\* A round has ended with a score at 9.
RoundEndedAtNine == gameState = 2 /\ (p1.score = 9 \/ p2.score = 9)

\* C15 (steps): the step that follows a round ended with a score at 9
\* leads to the startup state with no start pending, announces the player
\* whose score is 9 and keeps the scores; the startup state is left only
\* with a start pending, and a start becomes pending there only with the
\* return key.
C15_MatchOverSteps ==
    /\ RoundEndedAtNine =>
           /\ gameState' = 0
           /\ gameStarting' = 0
           /\ printed' = Line("Player %d wins!",
                              IF p1.score = 9 THEN 1 ELSE 2, 0)
           /\ p1' = p1 /\ p2' = p2
    /\ (gameState = 0 /\ gameState' # 0) => gameStarting = 1
    /\ (gameState = 0 /\ gameStarting = 0 /\ gameStarting' = 1) => PressReturn

\* C15: when a round ends with a score at 9 the match is over: the game
\* returns to the startup state instead of starting a round, the winner
\* announced is the player whose score is 9, and no round is played until
\* the return key starts a new match.
C15_MatchOver ==
    /\ [][C15_MatchOverSteps]_vars
    /\ RoundEndedAtNine ~> (gameState = 0 /\ gameStarting = 0)

\* Player 2 has been announced as the winner of a match ended at 9.
C15_Witness ==
    /\ gameState = 0
    /\ gameStarting = 0
    /\ p2.score = 9
    /\ p1.score < 9
    /\ printed = Line("Player %d wins!", 2, 0)

\* A step from the new round state back to the round loop: the ball and
\* both paddles are at their start positions, |velocity.x| is BALL_SPEED
\* and the scores, both below 9, are those the round ended with.
RoundRestarted ==
    /\ ball'.position = Pt(R(BALL_START_X), R(BALL_START_Y))
    /\ RAbs(ball'.speed.x) = R(BALL_SPEED)
    /\ p1'.position = Pt(R(P1_START_X), R(P1_START_Y))
    /\ p2'.position = Pt(R(P2_START_X), R(P2_START_Y))
    /\ p1'.score = p1.score /\ p2'.score = p2.score
    /\ p1.score < 9 /\ p2.score < 9

\* C16: after a score that leaves both scores below 9 the game returns to
\* the round loop once 1 second has passed since the round ended and not
\* before, with the ball and the paddles at their start positions,
\* |velocity.x| = BALL_SPEED and the scores preserved.
C16_RestartAfterOneSecond ==
    [][(gameState = 2 /\ gameState' = 1) =>
           /\ waited >= TicksPerSecond
           /\ RoundRestarted]_vars

---------------------------------------------------------------------------
(* Properties of the round loop's movement and of the arena's sides.       *)

\* C17: in every reachable state each paddle's y lies within
\* [0, WINDOW_HEIGHT - PADDLE_HEIGHT] and its x is its start x, also after
\* frames in which both movement keys of a paddle are held.
C17_PaddlesInRange ==
    /\ p1.position.x = R(P1_START_X)
    /\ p2.position.x = R(P2_START_X)
    /\ RGe(p1.position.y, R(0))
    /\ RLe(p1.position.y, R(WINDOW_HEIGHT - PADDLE_HEIGHT))
    /\ RGe(p2.position.y, R(0))
    /\ RLe(p2.position.y, R(WINDOW_HEIGHT - PADDLE_HEIGHT))

\* Both paddles were at their bounds, player 1's at 0 and player 2's at
\* 500, when all four keys were held: W left player 1's paddle at 0 and S
\* moved it to 8, Up moved player 2's paddle to 492 and Down back to 500.
C17_Witness ==
    /\ gameState = 1
    /\ frames > 0
    /\ p1.position.y = R(PADDLE_SPEED)
    /\ p2.position.y = R(WINDOW_HEIGHT - PADDLE_HEIGHT)

---------------------------------------------------------------------------
(* Properties of the choice between two candidate collisions.              *)

\* The square of the Euclidean distance between the points a and b.
EuclidSq(a, b) ==
    RAdd(RMul(RSub(b.x, a.x), RSub(b.x, a.x)),
         RMul(RSub(b.y, a.y), RSub(b.y, a.y)))

\* Of the candidates h and v, with contacts at the squared distances dh
\* and dv from the start of their swept vertices, ret is a nearest one.
NearestOf(h, dh, v, dv, ret) ==
    /\ ret \in {h, v}
    /\ RLt(dh, dv) => ret = h
    /\ RLt(dv, dh) => ret = v

\* getPaddleCollision's candidates h and v for ball b were both found.
BothPaddleCandidates(b, paddle, h, v) ==
    /\ ~PaddleBroadReject(b, paddle)
    /\ h.col.collides = 1
    /\ v.col.collides = 1

PaddleChoiceNearest(b, paddle, h, v) ==
    BothPaddleCandidates(b, paddle, h, v) =>
        NearestOf(h.col, EuclidSq(Ball_getVertex(b, h.vertex), h.col.position),
                  v.col, EuclidSq(Ball_getVertex(b, v.vertex), v.col.position),
                  paddleCol)

\* getWallCollision's candidates h and v for ball b were both found.
BothWallCandidates(h, v) == h.collides = 1 /\ v.collides = 1

WallChoiceNearest(b, h, v) ==
    BothWallCandidates(h, v) =>
        NearestOf(h, EuclidSq(Ball_getVertex(b, TestedVertex(b)), h.position),
                  v, EuclidSq(Ball_getVertex(b, TestedVertex(b)), v.position),
                  wallCol)

---------------------------------------------------------------------------
(* Properties of the corrected position.                                   *)

\* The points a and b have the same coordinates (never so when one of
\* them is not a number).
SamePoint(a, b) == REq(a.x, b.x) /\ REq(a.y, b.y)

\* "contact" lies on the line that vertex "vertex" of ball b sweeps, and
\* the same vertex of a ball put at "corrected" sits at "contact".
SnappedBy(b, vertex, contact, corrected) ==
    /\ REq(RMul(RSub(contact.y, Ball_getVertex(b, vertex).y), b.speed.x),
           RMul(RSub(contact.x, Ball_getVertex(b, vertex).x), b.speed.y))
    /\ SamePoint(Ball_getVertex([position |-> corrected, speed |-> b.speed],
                                vertex),
                 contact)

\* The vertex getPaddleCollision took its returned collision from.
CollisionVertex(b, paddle) ==
    ClosestPaddleCollision(b, PaddleHorizontal(b, paddle, Slope(b)),
                           PaddleVertical(b, paddle, Slope(b))).vertex

PaddleSnapped ==
    paddleCol.collides = 1 =>
        SnappedBy(ballIn, CollisionVertex(ballIn, FacedPaddle(ballIn, p1, p2)),
                  paddleCol.position, ballNextA)

WallSnapped ==
    wallCol.collides = 1 =>
        SnappedBy(ballIn, TestedVertex(ballIn), wallCol.position, ballNextB)

\* C19: whenever getPaddleCollision or getWallCollision reports a
\* collision, the colliding vertex of a ball at the corrected position it
\* writes sits exactly at the reported contact point.
C19_VertexAtContact ==
    pc = "returned" => (PaddleSnapped /\ WallSnapped)

---------------------------------------------------------------------------
(* Properties of the arena's sides.                                        *)

\* The frame's displacement carries the leading edge of ball b to a side
\* wall or past it.
ReachesSideWall(b) ==
    \/ /\ RGt(b.speed.x, R(0))
       /\ RGe(RAdd(Ball_getBound(b, RIGHT), b.speed.x), R(WINDOW_WIDTH))
    \/ /\ RLt(b.speed.x, R(0))
       /\ RLe(RAdd(Ball_getBound(b, LEFT), b.speed.x), R(0))

\* C20: throughout a round the ball's horizontal extent lies inside the
\* arena, and a frame whose displacement would carry the ball's leading
\* edge to a side wall ends in a paddle hit, in a floor/ceiling bounce
\* that leaves the position unchanged, or in a score that ends the round:
\* never in a free advance.
C20_NoSidewaysExit ==
    /\ gameState \in {1, 2} =>
           /\ RGe(Ball_getBound(ball, LEFT), R(0))
           /\ RLe(Ball_getBound(ball, RIGHT), R(WINDOW_WIDTH))
    /\ (frames > 0 /\ ReachesSideWall(ballIn)) =>
           \/ paddleCol.collides = 1
           \/ /\ wallCol.collides = 1
              /\ wallCol.side \in {TOP, BOTTOM}
              /\ ball.position = ballIn.position
           \/ /\ wallCol.collides = 1
              /\ wallCol.side \in {LEFT, RIGHT}
              /\ gameState = 2
              /\ ball.position = ballIn.position

\* The ball's right edge was within a frame's displacement of the right
\* wall: the frame ended the round with the ball where it was.
C20_Witness ==
    /\ frames > 0
    /\ ReachesSideWall(ballIn)
    /\ RGt(ballIn.speed.x, R(0))
    /\ RLt(Ball_getBound(ballIn, RIGHT), R(WINDOW_WIDTH))
    /\ paddleCol.collides = 0
    /\ wallCol.side = RIGHT
    /\ gameState = 2
    /\ ball.position = ballIn.position

---------------------------------------------------------------------------
(* Properties of the ball's horizontal speed and of the scores.            *)

\* The frame that is being taken reports a hit on a paddle's face.
FaceHit == paddleCol'.collides = 1 /\ paddleCol'.side \in {LEFT, RIGHT}

\* C21 (steps): the round loop is entered with |velocity.x| = BALL_SPEED, a
\* frame that reports a hit on a paddle's face adds 0.5 to |velocity.x|,
\* every other frame keeps it, and velocity.x is not zero in the round
\* loop state.
C21_SpeedSteps ==
    /\ (gameState # 1 /\ gameState' = 1) =>
           RAbs(ball'.speed.x) = R(BALL_SPEED)
    /\ (FrameStep /\ FaceHit) =>
           RAbs(ball'.speed.x) = RAdd(RAbs(ball.speed.x), Q(1, 2))
    /\ (FrameStep /\ ~FaceHit) =>
           RAbs(ball'.speed.x) = RAbs(ball.speed.x)
    /\ gameState' = 1 => ~REq(ball'.speed.x, R(0))

\* C21: in the round loop state velocity.x is never zero: its magnitude
\* is BALL_SPEED when a round begins, never decreases during the round
\* and grows by 0.5 with each LEFT or RIGHT paddle hit.
C21_SpeedXNeverZero == [][C21_SpeedSteps]_vars

\* Two hits on paddle faces in one round: |velocity.x| has grown from 5
\* to 6.
C21_Witness ==
    /\ frames > 0
    /\ hits = 2
    /\ RAbs(ball.speed.x) = R(BALL_SPEED + 1)

\* Both scores lie in 0 .. 9, at most one of them is 9, and both are below
\* 9 in the round loop state.
C22_ScoreRange ==
    /\ p1.score \in 0 .. 9
    /\ p2.score \in 0 .. 9
    /\ ~(p1.score = 9 /\ p2.score = 9)
    /\ gameState = 1 => (p1.score < 9 /\ p2.score < 9)

\* The frame that is being taken ends the round with a point for the
\* player of paddle q and none for the player of paddle r.
ScoringFrame(q, r) ==
    /\ FrameStep
    /\ gameState' = 2
    /\ q'.score = q.score + 1
    /\ r'.score = r.score

\* The step that is being taken starts a match: it leads from the startup
\* state to the round loop with both scores 0.
MatchStart ==
    /\ gameState = 0
    /\ gameState' = 1
    /\ p1'.score = 0
    /\ p2'.score = 0

\* A step changes a score only as a scoring frame or as the start of a
\* match does.
C22_ScoreSteps ==
    (p1'.score # p1.score \/ p2'.score # p2.score) =>
        \/ ScoringFrame(p1, p2)
        \/ ScoringFrame(p2, p1)
        \/ MatchStart

\* C22: in every reachable state both scores are in 0 .. 9 and at most
\* one is 9, the round loop state is only entered or occupied with both
\* below 9, and a score changes only by +1 in a scoring frame or by the
\* reset to 0 when a match starts.
C22_ScoresBounded == []C22_ScoreRange /\ [][C22_ScoreSteps]_vars

\* A round has ended 9 to 8.
C22_Witness ==
    /\ gameState = 2
    /\ p1.score = 9
    /\ p2.score = 8

====
